---- MODULE Spec2Model ----
(***************************************************************************)
(* seller-sync (src/seller_sync.py): a workbook of per-merchant rows is    *)
(* split into one report per contact row (SpreadsheetSplitter), and after  *)
(* a typed confirmation every report is mailed (send_multiple_emails,      *)
(* Mailman).  The model keeps the file system, the in-memory workbook, the *)
(* data frames, the list of generated files and the calls made to Outlook. *)
(*                                                                         *)
(* Representation.  A Python str is a TLA+ string; TLC strings cannot be   *)
(* indexed, so Chars lists the characters of every seller name of the      *)
(* model.  A cell value is a tagged record ("int", "float" or "str").  A   *)
(* worksheet is the function from the coordinates <<row, column>> of its   *)
(* cells whose value is not None to those values.  A data frame is a       *)
(* record of its column names and its rows (tuples of cell values).        *)
(***************************************************************************)
EXTENDS Integers, Sequences, FiniteSets, TLC

VARIABLES
    pc,             \* position of the process: main, split_sellers, split_loop,
                    \* confirm, send_multiple_emails, send_loop, done, error
    err,            \* the exception that ended the process, or "none"
    run,            \* how many times the program has been started
    input,          \* SellerSync_Data.xlsx: sheet name -> data frame as read
    fs,             \* file system: [dirs, files], files: path -> xlsx content
    prior,          \* fs as the previous run of the program left it
    template_file,  \* self.template_file once loaded: the in-memory workbook
    dfs,            \* self.dfs
    contacts,       \* self.contacts
    files,          \* self.files
    merchant_list,  \* split_sellers' merchant_list
    i,              \* merchants of merchant_list processed so far
    stdin,          \* the text typed at the confirmation prompt, <<>> before
    arg_files,      \* send_multiple_emails' files argument
    arg_emails,     \* send_multiple_emails' emails argument
    arg_subject,    \* send_multiple_emails' subject argument
    arg_body,       \* send_multiple_emails' body argument
    j,              \* files of arg_files handled so far
    attempts        \* calls of Mailman.send_email made by this process

vars == <<pc, err, run, input, fs, prior, template_file, dfs, contacts, files,
          merchant_list, i, stdin, arg_files, arg_emails, arg_subject,
          arg_body, j, attempts>>

---------------------------------------------------------------------------
(* Bounds of the model *)

MaxContacts == 2    \* contact rows of the CONTATOS sheet
MaxRuns == 2        \* starts of the program
MaxArgs == 2        \* list lengths given to send_multiple_emails on its own

---------------------------------------------------------------------------
(* Module-level constants of seller_sync.py *)

CONTACTS_SHEET == "CONTATOS"
CONFIRMATION_KEYWORD == "send"
COLUMN_EMAIL == "email"
COLUMN_SUBJECT == "email_subject"
COLUMN_BODY == "email_body"
COLUMN_ID == "merchant_customer_id"
FILE_TEMPLATE == "template.xlsx"
SHEETS_INPUT == <<"GMS_AGG", "GMS_SKU">>
SHEETS_FILENAME == [col |-> "seller_name", sheet |-> "GMS_AGG"]
OUTPUT_FOLDER == "output"

\* iter_rows(min_row=1, min_col=1, max_row=50, max_col=50)
CLEAN_MIN_ROW == 1
CLEAN_MIN_COL == 1
CLEAN_MAX_ROW == 50
CLEAN_MAX_COL == 50

---------------------------------------------------------------------------
(* Values *)

Num(n) == [t |-> "int", n |-> n]
Flt(n, tenths) == [t |-> "float", n |-> n, tenths |-> tenths]
Str(s) == [t |-> "str", s |-> s]

Range(seq) == {seq[k] : k \in 1..Len(seq)}

SeqsUpTo(S, n) == UNION {[1..k -> S] : k \in 0..n}

\* int(x) of a contact identifier: an int is itself, a non-negative float is
\* truncated
PyInt(cell) == cell.n

\* The characters of the seller names used below
Chars ==
    [s \in {"Acme Co.!", "AcmeCo", "Acme Dup", "Beta 9", "Z_e-d 7"} |->
        CASE s = "Acme Co.!" -> <<"A", "c", "m", "e", " ", "C", "o", ".", "!">>
          [] s = "AcmeCo"    -> <<"A", "c", "m", "e", "C", "o">>
          [] s = "Acme Dup"  -> <<"A", "c", "m", "e", " ", "D", "u", "p">>
          [] s = "Beta 9"    -> <<"B", "e", "t", "a", " ", "9">>
          [] s = "Z_e-d 7"   -> <<"Z", "_", "e", "-", "d", " ", "7">>]

\* The class [A-Za-z0-9]
Alnum ==
    {"A", "B", "C", "D", "E", "F", "G", "H", "I", "J", "K", "L", "M",
     "N", "O", "P", "Q", "R", "S", "T", "U", "V", "W", "X", "Y", "Z",
     "a", "b", "c", "d", "e", "f", "g", "h", "i", "j", "k", "l", "m",
     "n", "o", "p", "q", "r", "s", "t", "u", "v", "w", "x", "y", "z",
     "0", "1", "2", "3", "4", "5", "6", "7", "8", "9"}

---------------------------------------------------------------------------
(* Data frames *)

ColIdx(df, col) == CHOOSE k \in 1..Len(df.columns) : df.columns[k] = col

\* df[col] of one row
Val(df, row, col) == row[ColIdx(df, col)]

\* df[df[id_column] == merchant_id]
FilterById(df, merchant_id) ==
    [columns |-> df.columns,
     rows |-> SelectSeq(df.rows,
                        LAMBDA row : Val(df, row, COLUMN_ID) = Num(merchant_id))]

\* merchant_dfs of split_sellers
MerchantDfs(frames, merchant_id) ==
    [s \in Range(SHEETS_INPUT) |-> FilterById(frames[s], merchant_id)]

---------------------------------------------------------------------------
(* Workbooks and xlsx files *)

\* Workbook.save: per sheet, one <c r=...> element for every cell that holds a
\* value, keyed by its reference
XlsxSave(wb) ==
    [s \in DOMAIN wb |->
        [rc \in DOMAIN wb[s] |-> [r |-> rc, v |-> wb[s][rc]]]]

\* xl.load_workbook of a saved file
XlsxLoad(file) ==
    [s \in DOMAIN file |->
        [rc \in {file[s][x].r : x \in DOMAIN file[s]} |-> file[s][rc].v]]

\* load_spreadsheet: self.template_file is still the path here
load_spreadsheet(path, fsys) == XlsxLoad(fsys.files[path])

\* The cells iter_rows visits
InCleanWindow(rc) ==
    /\ rc[1] >= CLEAN_MIN_ROW /\ rc[1] <= CLEAN_MAX_ROW
    /\ rc[2] >= CLEAN_MIN_COL /\ rc[2] <= CLEAN_MAX_COL

\* A clean_spreadsheet that empties the input sheets entirely
clean_whole_sheets(wb) ==
    [s \in DOMAIN wb |-> IF s \in Range(SHEETS_INPUT) THEN <<>> ELSE wb[s]]

\* clean_spreadsheet: cell.value = None in the window of every input sheet
clean_spreadsheet(wb) ==
    [s \in DOMAIN wb |->
        IF s \in Range(SHEETS_INPUT)
        THEN [rc \in {x \in DOMAIN wb[s] : ~InCleanWindow(x)} |-> wb[s][rc]]
        ELSE wb[s]]

\* The cells fill_cols writes for one data frame: the column names in row 1,
\* the k-th row of the frame (after reset_index) in row k + 1
FillCells(df) ==
    [rc \in (0..Len(df.rows)) \X (1..Len(df.columns)) |->
        IF rc[1] = 0 THEN Str(df.columns[rc[2]]) ELSE df.rows[rc[1]][rc[2]]]

FillSheet(sheet, df) ==
    LET w == FillCells(df)
        at == {<<rc[1] + 1, rc[2]>> : rc \in DOMAIN w}
    IN  [rc \in DOMAIN sheet \cup at |->
            IF rc \in at THEN w[<<rc[1] - 1, rc[2]>>] ELSE sheet[rc]]

\* fill_cols
fill_cols(wb, merchant_dfs) ==
    [s \in DOMAIN wb |->
        IF s \in Range(SHEETS_INPUT)
        THEN FillSheet(wb[s], merchant_dfs[s])
        ELSE wb[s]]

---------------------------------------------------------------------------
(* File names *)

\* str.replace(' ', '_')
ReplaceSpaces(chars) ==
    [k \in 1..Len(chars) |-> IF chars[k] = " " THEN "_" ELSE chars[k]]

\* re.sub('[^A-Za-z0-9_]+', '', ...): what \W would leave
ReSubKeepUnderscore(chars) ==
    LET F[k \in 0..Len(chars)] ==
            IF k = 0 THEN ""
            ELSE F[k - 1] \o (IF chars[k] \in Alnum \cup {"_"} THEN chars[k] ELSE "")
    IN  F[Len(chars)]

\* re.sub('[^A-Za-z0-9]+', '', seller_name)
ReSub(chars) ==
    LET F[k \in 0..Len(chars)] ==
            IF k = 0 THEN ""
            ELSE F[k - 1] \o (IF chars[k] \in Alnum THEN chars[k] ELSE "")
    IN  F[Len(chars)]

\* os.makedirs(output_folder) unless it exists
MakeOutputFolder(fsys) == [fsys EXCEPT !.dirs = @ \cup {OUTPUT_FOLDER}]

\* A get_save_path that never reuses the name of an existing file
get_save_path_fresh(merchant_dfs, fsys) ==
    LET filename_sheet == merchant_dfs[SHEETS_FILENAME.sheet]
        clean == ReSub(ReplaceSpaces(Chars[
                     Val(filename_sheet, filename_sheet.rows[1], SHEETS_FILENAME.col).s]))
        path == OUTPUT_FOLDER \o "/relatorio-" \o clean \o ".xlsx"
    IN  IF filename_sheet.rows = <<>>
        THEN [raised |-> "IndexError", path |-> "", fs |-> fsys]
        ELSE [raised |-> "none",
              path |-> IF path \in DOMAIN fsys.files
                       THEN OUTPUT_FOLDER \o "/relatorio-" \o clean \o "-1.xlsx"
                       ELSE path,
              fs |-> MakeOutputFolder(fsys)]

\* get_save_path: .iloc[0] of an empty selection raises IndexError
get_save_path(merchant_dfs, fsys) ==
    LET filename_sheet == merchant_dfs[SHEETS_FILENAME.sheet]
    IN  IF filename_sheet.rows = <<>>
        THEN [raised |-> "IndexError", path |-> "", fs |-> fsys]
        ELSE LET seller_name ==
                     ReplaceSpaces(Chars[Val(filename_sheet, filename_sheet.rows[1],
                                             SHEETS_FILENAME.col).s])
                 clean_seller_name == ReSub(seller_name)
             IN  [raised |-> "none",
                  path |-> OUTPUT_FOLDER \o "/relatorio-" \o clean_seller_name \o ".xlsx",
                  fs |-> MakeOutputFolder(fsys)]

\* self.template_file.save(path)
SaveFile(fsys, path, wb) ==
    [fsys EXCEPT !.files = (path :> XlsxSave(wb)) @@ @]

\* os.path.abspath(file), the process running in the directory of the script
Abspath(file) == "/cwd/" \o file

---------------------------------------------------------------------------
(* Input files *)

NoError == [type |-> "none", at |-> ""]
Raised(type, at) == [type |-> type, at |-> at]

AggColumns == <<COLUMN_ID, "seller_name">>
SkuColumns == <<COLUMN_ID, "sku">>

\* n rows of merchant m in GMS_SKU
SkuRows(m, n) == [k \in 1..n |-> <<Num(m), Num(100 * m + k)>>]

\* Merchant 1 has as many GMS_SKU rows as the cleaned window has rows, so with
\* the header its last row is row CLEAN_MAX_ROW + 1; merchant 3 is on no sheet
DataBig ==
    [GMS_AGG |-> [columns |-> AggColumns,
                  rows |-> << <<Num(1), Str("Acme Co.!")>>,
                              <<Num(2), Str("Beta 9")>>,
                              <<Num(1), Str("Acme Dup")>> >>],
     GMS_SKU |-> [columns |-> SkuColumns,
                  rows |-> SkuRows(1, CLEAN_MAX_ROW) \o SkuRows(2, 1)]]

\* Merchants 1 and 2 have seller names that differ in punctuation only;
\* merchant 3 has a name and no GMS_SKU row
DataSmall ==
    [GMS_AGG |-> [columns |-> AggColumns,
                  rows |-> << <<Num(2), Str("AcmeCo")>>,
                              <<Num(1), Str("Acme Co.!")>>,
                              <<Num(3), Str("Z_e-d 7")>> >>],
     GMS_SKU |-> [columns |-> SkuColumns,
                  rows |-> SkuRows(2, 2) \o SkuRows(1, 1)]]

Datasets == {DataBig, DataSmall}

\* Identifier cells of the CONTATOS sheet
ContactIds == {Num(1), Num(2), Num(3), Flt(2, 7)}

AddressBook == <<"ana@example.com", "bia@example.com", "caio@example.com">>
Address(k) == IF k <= Len(AddressBook) THEN AddressBook[k] ELSE "outro@example.com"

\* The CONTATOS sheet as read_excel(header=0) returns it: the sheet's first row
\* became the column labels, the real header is row 0 of the frame
ContatosHeader ==
    <<Str(COLUMN_ID), Str(COLUMN_EMAIL), Str(COLUMN_SUBJECT), Str(COLUMN_BODY)>>

ContatosRow(id, k) ==
    <<id, Str(Address(k)),
      Str(IF k = 1 THEN "Relatorio" ELSE "assunto ignorado"),
      Str(IF k = 1 THEN "Segue o relatorio" ELSE "corpo ignorado")>>

ContatosFrame(rows) ==
    [columns |-> <<"Contatos", "Unnamed: 1", "Unnamed: 2", "Unnamed: 3">>,
     rows |-> rows]

ContatosSheets ==
    {ContatosFrame(<<>>)} \cup
    {ContatosFrame(<<ContatosHeader>> \o [k \in 1..Len(ids) |-> ContatosRow(ids[k], k)]) :
        ids \in SeqsUpTo(ContactIds, MaxContacts)}

\* Template workbooks: an empty one, and one with cells inside and outside the
\* cleaned window of the input sheets; both have a sheet the program never
\* touches
TemplateBlank ==
    [GMS_AGG |-> <<>>,
     GMS_SKU |-> <<>>,
     Pivot |-> (<<1, 1>> :> Str("pivot"))]

TemplateStale ==
    [GMS_AGG |-> (<<1, 1>> :> Str("old header")) @@ (<<3, 2>> :> Str("old name"))
                 @@ (<<CLEAN_MAX_ROW + 1, 1>> :> Str("note below"))
                 @@ (<<1, CLEAN_MAX_COL + 1>> :> Str("note right")),
     GMS_SKU |-> (<<2, 1>> :> Num(99)) @@ (<<CLEAN_MAX_ROW, CLEAN_MAX_COL>> :> Str("corner"))
                 @@ (<<CLEAN_MAX_ROW + 1, 2>> :> Str("total"))
                 @@ (<<CLEAN_MAX_ROW + 10, 1>> :> Str("footer")),
     Pivot |-> (<<1, 1>> :> Str("pivot"))]

Templates == {XlsxSave(TemplateBlank), XlsxSave(TemplateStale)}

\* Texts typed at the prompt
Answers == {"send", "Send", "SEND", "", "yes", "send "}

\* What the Outlook calls of one send_email do: the message is sent, or one of
\* them raises
SendOutcomes == {"sent", "com_error"}

---------------------------------------------------------------------------
(* Pure parts of the handlers *)

\* pd.read_excel(input_data_file, sheet_name=None, header=0)
import_data(data) == data

\* get_contacts: row 0 of the frame becomes the column labels;
\* contacts_df.iloc[0] raises IndexError on an empty frame
get_contacts(frames) ==
    LET contacts_df == frames[CONTACTS_SHEET]
    IN  IF contacts_df.rows = <<>>
        THEN [raised |-> "IndexError", df |-> [columns |-> <<>>, rows |-> <<>>]]
        ELSE [raised |-> "none",
              df |-> [columns |-> [k \in 1..Len(contacts_df.rows[1]) |->
                                      contacts_df.rows[1][k].s],
                      rows |-> Tail(contacts_df.rows)]]

\* list(map(int, ...)) without the repeated identifiers
MerchantListUnique(df) ==
    LET all == [k \in 1..Len(df.rows) |-> PyInt(Val(df, df.rows[k], COLUMN_ID))]
        F[k \in 0..Len(all)] ==
            IF k = 0 THEN <<>>
            ELSE IF all[k] \in Range(F[k - 1]) THEN F[k - 1] ELSE Append(F[k - 1], all[k])
    IN  F[Len(all)]

\* list(map(int, self.contacts[self.id_column]))
MerchantList(df) ==
    [k \in 1..Len(df.rows) |-> PyInt(Val(df, df.rows[k], COLUMN_ID))]

\* A comparison that ignores the case of the first letter
confirm_ignoring_case(text) == text \in {CONFIRMATION_KEYWORD, "Send"}

\* confirm_send_email: input(...) == CONFIRMATION_KEYWORD
confirm_send_email(text) == text = CONFIRMATION_KEYWORD

\* No check of the two lengths
LengthsAccepted(fl, el) == TRUE

\* assert len(files) == len(emails)
LengthsAgree(fl, el) == Len(fl) = Len(el)

\* A send_email whose try has no except
send_email_uncaught(mail_man, outcome) ==
    [call |-> [mail_man EXCEPT !.outcome = outcome],
     raised |-> IF outcome = "sent" THEN "none" ELSE outcome]


\* Mailman.send_email: every exception of the Outlook calls is caught and printed
send_email(mail_man, outcome) ==
    [call |-> [mail_man EXCEPT !.outcome = outcome],
     raised |-> "none"]

\* Mailman(recipient, subject, body, attachment)
Mailman(recipient, subject, body, attachment) ==
    [To |-> recipient, Subject |-> subject, Body |-> body,
     Attachment |-> attachment, outcome |-> "unsent"]

---------------------------------------------------------------------------
(* The state before the program is started *)

NoFrame == [columns |-> <<>>, rows |-> <<>>]

\* The fields and locals of a process that has not run yet
Fresh ==
    /\ err = NoError
    /\ template_file = <<>>
    /\ dfs = <<>>
    /\ contacts = NoFrame
    /\ files = <<>>
    /\ merchant_list = <<>>
    /\ i = 0
    /\ stdin = <<>>
    /\ arg_files = <<>>
    /\ arg_emails = <<>>
    /\ arg_subject = ""
    /\ arg_body = ""
    /\ j = 0
    /\ attempts = <<>>

Init ==
    /\ pc = "main"
    /\ run = 1
    /\ \E d \in Datasets, c \in ContatosSheets :
           input = [s \in {CONTACTS_SHEET} \cup DOMAIN d |->
                       IF s = CONTACTS_SHEET THEN c ELSE d[s]]
    /\ \E t \in Templates :
           fs = [dirs |-> {}, files |-> (FILE_TEMPLATE :> t)]
    /\ prior = fs
    /\ Fresh

---------------------------------------------------------------------------
(* main *)

\* SpreadsheetSplitter.__init__
Construct ==
    /\ pc = "main"
    /\ LET frames == import_data(input)
           got == get_contacts(frames)
       IN  /\ template_file' = load_spreadsheet(FILE_TEMPLATE, fs)
           /\ dfs' = frames
           /\ files' = <<>>
           /\ contacts' = got.df
           /\ IF got.raised = "none"
              THEN pc' = "split_sellers" /\ err' = err
              ELSE pc' = "error" /\ err' = Raised(got.raised, "get_contacts")
    /\ UNCHANGED <<run, input, fs, prior, merchant_list, i, stdin, arg_files,
                   arg_emails, arg_subject, arg_body, j, attempts>>

\* split_sellers, up to its loop
SplitBegin ==
    /\ pc = "split_sellers"
    /\ merchant_list' = MerchantList(contacts)
    /\ i' = 0
    /\ pc' = "split_loop"
    /\ UNCHANGED <<err, run, input, fs, prior, template_file, dfs, contacts,
                   files, stdin, arg_files, arg_emails, arg_subject, arg_body,
                   j, attempts>>

\* One iteration of split_sellers' loop: filter, clean_spreadsheet, fill_cols,
\* save_spreadsheet
SplitIter ==
    /\ pc = "split_loop"
    /\ i < Len(merchant_list)
    /\ LET merchant_id == merchant_list[i + 1]
           merchant_dfs == MerchantDfs(dfs, merchant_id)
           filled == fill_cols(clean_spreadsheet(template_file), merchant_dfs)
           sp == get_save_path(merchant_dfs, fs)
           saved == SaveFile(sp.fs, sp.path, filled)
       IN  IF sp.raised = "none"
           THEN /\ fs' = saved
                /\ template_file' = XlsxLoad(saved.files[sp.path])
                /\ files' = Append(files, sp.path)
                /\ i' = i + 1
                /\ UNCHANGED <<pc, err>>
           ELSE /\ template_file' = filled
                /\ pc' = "error"
                /\ err' = Raised(sp.raised, "get_save_path")
                /\ UNCHANGED <<fs, files, i>>
    /\ UNCHANGED <<run, input, prior, dfs, contacts, merchant_list, stdin,
                   arg_files, arg_emails, arg_subject, arg_body, j, attempts>>

\* split_sellers returns; main prints the contacts and prompts
SplitEnd ==
    /\ pc = "split_loop"
    /\ i = Len(merchant_list)
    /\ pc' = "confirm"
    /\ UNCHANGED <<err, run, input, fs, prior, template_file, dfs, contacts,
                   files, merchant_list, i, stdin, arg_files, arg_emails,
                   arg_subject, arg_body, j, attempts>>

\* confirm_send_email and main's if: the arguments of send_multiple_emails are
\* evaluated first, and contacts[COLUMN_SUBJECT][0] raises KeyError when
\* contacts has no row
Confirm ==
    /\ pc = "confirm"
    /\ \E text \in Answers :
        /\ stdin' = <<text>>
        /\ IF ~confirm_send_email(text)
           THEN /\ pc' = "done"
                /\ UNCHANGED <<err, arg_files, arg_emails, arg_subject, arg_body>>
           ELSE IF contacts.rows = <<>>
           THEN /\ pc' = "error"
                /\ err' = Raised("KeyError", "main")
                /\ UNCHANGED <<arg_files, arg_emails, arg_subject, arg_body>>
           ELSE /\ pc' = "send_multiple_emails"
                /\ arg_files' = files
                /\ arg_emails' = [k \in 1..Len(contacts.rows) |->
                                     Val(contacts, contacts.rows[k], COLUMN_EMAIL).s]
                /\ arg_subject' = Val(contacts, contacts.rows[1], COLUMN_SUBJECT).s
                /\ arg_body' = Val(contacts, contacts.rows[1], COLUMN_BODY).s
                /\ err' = err
    /\ UNCHANGED <<run, input, fs, prior, template_file, dfs, contacts, files,
                   merchant_list, i, j, attempts>>

---------------------------------------------------------------------------
(* send_multiple_emails *)

\* The assertion on the two lengths
SendBegin ==
    /\ pc = "send_multiple_emails"
    /\ IF LengthsAgree(arg_files, arg_emails)
       THEN pc' = "send_loop" /\ err' = err
       ELSE pc' = "error" /\ err' = Raised("AssertionError", "send_multiple_emails")
    /\ j' = 0
    /\ UNCHANGED <<run, input, fs, prior, template_file, dfs, contacts, files,
                   merchant_list, i, stdin, arg_files, arg_emails, arg_subject,
                   arg_body, attempts>>

\* One iteration of the loop: a Mailman is built and its send_email called
SendIter ==
    /\ pc = "send_loop"
    /\ j < Len(arg_files)
    /\ \E outcome \in SendOutcomes :
        LET mail_man == Mailman(arg_emails[j + 1], arg_subject, arg_body,
                                Abspath(arg_files[j + 1]))
            r == send_email(mail_man, outcome)
        IN  /\ attempts' = Append(attempts, r.call)
            /\ IF r.raised = "none"
               THEN j' = j + 1 /\ UNCHANGED <<pc, err>>
               ELSE /\ pc' = "error"
                    /\ err' = Raised(r.raised, "send_email")
                    /\ j' = j
    /\ UNCHANGED <<run, input, fs, prior, template_file, dfs, contacts, files,
                   merchant_list, i, stdin, arg_files, arg_emails, arg_subject,
                   arg_body>>

\* The loop is over and send_multiple_emails returns
SendEnd ==
    /\ pc = "send_loop"
    /\ j = Len(arg_files)
    /\ pc' = "done"
    /\ UNCHANGED <<err, run, input, fs, prior, template_file, dfs, contacts,
                   files, merchant_list, i, stdin, arg_files, arg_emails,
                   arg_subject, arg_body, j, attempts>>

---------------------------------------------------------------------------
(* The program is started again on the same input files and template, the
   output folder as the previous run left it *)

Rerun ==
    /\ pc \in {"done", "error"}
    /\ run < MaxRuns
    /\ run' = run + 1
    /\ pc' = "main"
    /\ prior' = fs
    /\ err' = NoError
    /\ template_file' = <<>>
    /\ dfs' = <<>>
    /\ contacts' = NoFrame
    /\ files' = <<>>
    /\ merchant_list' = <<>>
    /\ i' = 0
    /\ stdin' = <<>>
    /\ arg_files' = <<>>
    /\ arg_emails' = <<>>
    /\ arg_subject' = ""
    /\ arg_body' = ""
    /\ j' = 0
    /\ attempts' = <<>>
    /\ UNCHANGED <<input, fs>>

Next ==
    \/ Construct
    \/ SplitBegin
    \/ SplitIter
    \/ SplitEnd
    \/ Confirm
    \/ SendBegin
    \/ SendIter
    \/ SendEnd
    \/ Rerun

Spec == Init /\ [][Next]_vars

---------------------------------------------------------------------------
(* send_multiple_emails called on its own, with any two lists *)

ArgPaths == {"output/relatorio-AcmeCo.xlsx", "output/relatorio-Beta9.xlsx"}
ArgEmails == {"ana@example.com", "bia@example.com"}

InitSend ==
    /\ pc = "send_multiple_emails"
    /\ run = 1
    /\ input = <<>>
    /\ fs = [dirs |-> {}, files |-> <<>>]
    /\ prior = fs
    /\ err = NoError
    /\ template_file = <<>>
    /\ dfs = <<>>
    /\ contacts = NoFrame
    /\ files = <<>>
    /\ merchant_list = <<>>
    /\ i = 0
    /\ stdin = <<>>
    /\ arg_files \in SeqsUpTo(ArgPaths, MaxArgs)
    /\ arg_emails \in SeqsUpTo(ArgEmails, MaxArgs)
    /\ arg_subject = "Relatorio"
    /\ arg_body = "Segue o relatorio"
    /\ j = 0
    /\ attempts = <<>>

NextSend ==
    \/ SendBegin
    \/ SendIter
    \/ SendEnd

SpecSend == InitSend /\ [][NextSend]_vars

---------------------------------------------------------------------------
(* Properties *)

\* split_sellers has returned to main
SplitReturned ==
    \/ pc \in {"confirm", "send_multiple_emails", "send_loop", "done"}
    \/ pc = "error" /\ err.at \in {"main", "send_multiple_emails", "send_email"}

\* split_sellers has returned or raised
SplitOver == SplitReturned \/ (pc = "error" /\ err.at = "get_save_path")

\* The template workbook as it is on disk
Template0 == XlsxLoad(fs.files[FILE_TEMPLATE])

\* The workbook read back from a generated file
Report(path) == XlsxLoad(fs.files[path])

\* The rows of the k-th merchant of merchant_list on sheet s
RowsOf(k, s) == FilterById(dfs[s], merchant_list[k])

\* The seller name the k-th report is named after
SellerNameOf(k) ==
    LET df == RowsOf(k, SHEETS_FILENAME.sheet)
    IN  Val(df, df.rows[1], SHEETS_FILENAME.col).s

\* The characters of a name that are letters or digits, in order
RECURSIVE LettersAndDigits(_)
LettersAndDigits(chars) ==
    IF chars = <<>> THEN ""
    ELSE (IF Head(chars) \in Alnum THEN Head(chars) ELSE "")
         \o LettersAndDigits(Tail(chars))

\* C1: once split_sellers is over it has not raised, and it has produced as
\* many distinct output files as contacts has distinct merchant identifiers,
\* every one of them on disk.
C1_OneFilePerMerchant ==
    SplitOver =>
        /\ SplitReturned
        /\ Cardinality(Range(files)) = Cardinality(Range(merchant_list))
        /\ Range(files) \subseteq DOMAIN fs.files

\* C2: Outlook is only ever reached after the text typed at the prompt was
\* exactly "send"; after any other text the process is done with no
\* send_email call made.
C2_OnlySendConfirms ==
    /\ (pc \in {"send_multiple_emails", "send_loop"} \/ attempts # <<>>)
           => stdin = <<"send">>
    /\ (stdin # <<>> /\ stdin[1] # "send") => (pc = "done" /\ attempts = <<>>)

C2_Witness ==
    /\ stdin = <<"Send">>
    /\ pc = "done"
    /\ Len(files) = MaxContacts
    /\ attempts = <<>>

\* C3: with lists of different lengths send_multiple_emails makes no
\* send_email call: it is at its entry or has raised AssertionError.
C3_MismatchRaisesFirst ==
    Len(arg_files) # Len(arg_emails) =>
        /\ attempts = <<>>
        /\ pc \in {"send_multiple_emails", "error"}
        /\ pc = "error" => err = Raised("AssertionError", "send_multiple_emails")

C3_Witness ==
    /\ Len(arg_files) = 2
    /\ Len(arg_emails) = 1
    /\ pc = "error"
    /\ err.type = "AssertionError"
    /\ attempts = <<>>

\* C4: with lists of equal length send_multiple_emails never raises; the k-th
\* send_email call is for the k-th file and the k-th address, whatever the
\* earlier calls did, and when it returns every file has had exactly one call.
C4_EveryFileOneAttempt ==
    Len(arg_files) = Len(arg_emails) =>
        /\ pc # "error"
        /\ pc = "send_loop" => Len(attempts) = j
        /\ pc = "done" => Len(attempts) = Len(arg_files)
        /\ \A k \in 1..Len(attempts) :
               /\ attempts[k].Attachment = Abspath(arg_files[k])
               /\ attempts[k].To = arg_emails[k]

C4_Witness ==
    /\ pc = "done"
    /\ Len(arg_files) = 2
    /\ Len(attempts) = 2
    /\ attempts[1].outcome = "com_error"
    /\ attempts[2].outcome = "sent"

\* C5: when the program is run again on the same inputs and template, once
\* split_sellers is over the files on disk are those the previous run left,
\* path for path and cell for cell.
C5_RerunSameContent ==
    (run > 1 /\ SplitOver) => fs.files = prior.files

C5_Witness ==
    /\ run = 2
    /\ pc = "confirm"
    /\ Len(files) = 2
    /\ files[1] # files[2]
    /\ fs.files = prior.files

\* C6: a merchant with no row on some input sheet does not make
\* get_save_path raise, and once the loop is past it its file is on disk.
C6_NoMatchIsNoError ==
    /\ ~(/\ pc = "error"
         /\ err.at = "get_save_path"
         /\ \E s \in Range(SHEETS_INPUT) : RowsOf(i + 1, s).rows = <<>>)
    /\ \A k \in 1..i :
           (\E s \in Range(SHEETS_INPUT) : RowsOf(k, s).rows = <<>>)
               => files[k] \in DOMAIN fs.files

\* C7: the k-th generated path is <output_folder>/relatorio-<name>.xlsx, <name>
\* being the letters and digits of the seller name of the first matching row;
\* "Acme Co.!" gives output/relatorio-AcmeCo.xlsx.
C7_SavePath ==
    \A k \in 1..Len(files) :
        /\ files[k] = OUTPUT_FOLDER \o "/relatorio-"
                          \o LettersAndDigits(Chars[SellerNameOf(k)]) \o ".xlsx"
        /\ SellerNameOf(k) = "Acme Co.!" => files[k] = "output/relatorio-AcmeCo.xlsx"

C7_Witness ==
    /\ Len(files) > 0
    /\ SellerNameOf(1) = "Acme Co.!"
    /\ files[1] = "output/relatorio-AcmeCo.xlsx"
    /\ files[1] \in DOMAIN fs.files

\* C8: right after a merchant is saved, every cell of the input sheets of its
\* file is a cell of its own header and rows or a cell the template had
\* outside the cleaned window, and all of its own cells are there.
C8_NoCompounding ==
    (pc = "split_loop" /\ i > 0) =>
        \A s \in Range(SHEETS_INPUT) :
            LET own == FillSheet(<<>>, RowsOf(i, s))
                got == Report(files[i])[s]
            IN  /\ DOMAIN own \subseteq DOMAIN got
                /\ \A rc \in DOMAIN got :
                       \/ rc \in DOMAIN own /\ got[rc] = own[rc]
                       \/ /\ rc \notin DOMAIN own
                          /\ rc \in DOMAIN Template0[s]
                          /\ got[rc] = Template0[s][rc]

\* The cells of sheet s written by fill_cols for the merchants 1..n
FilledUpTo(n, s) ==
    UNION {DOMAIN FillSheet(<<>>, RowsOf(k, s)) : k \in 1..n}

\* The merchants fill_cols has run for
Filled == IF pc = "error" /\ err.at = "get_save_path" THEN i + 1 ELSE i

\* The template cells of sheet s below row 50 or right of column 50
BeyondWindow(s) ==
    {rc \in DOMAIN Template0[s] : rc[1] > CLEAN_MAX_ROW \/ rc[2] > CLEAN_MAX_COL}

\* C10: a template cell of an input sheet outside rows 1..50 x columns 1..50
\* that no fill_cols has written keeps its value in the in-memory workbook and
\* in every generated file; the sheets that are no input sheets are untouched.
C10_StaleOutsideWindow ==
    template_file # <<>> =>
        /\ \A s \in Range(SHEETS_INPUT) :
               \A rc \in BeyondWindow(s) \ FilledUpTo(Filled, s) :
                   /\ rc \in DOMAIN template_file[s]
                   /\ template_file[s][rc] = Template0[s][rc]
                   /\ \A k \in 1..Len(files) :
                          /\ rc \in DOMAIN Report(files[k])[s]
                          /\ Report(files[k])[s][rc] = Template0[s][rc]
        /\ \A s \in DOMAIN Template0 \ Range(SHEETS_INPUT) :
               template_file[s] = Template0[s]

C10_Witness ==
    /\ pc = "confirm"
    /\ Len(files) = 2
    /\ \E s \in Range(SHEETS_INPUT) :
           /\ BeyondWindow(s) \ FilledUpTo(2, s) # {}
           /\ BeyondWindow(s) \cap FilledUpTo(2, s) # {}
           /\ \A rc \in BeyondWindow(s) \ FilledUpTo(2, s) :
                  Report(files[2])[s][rc] = Template0[s][rc]

\* C9: once split_sellers has returned, files has one entry per contacts row,
\* the k-th being the path for the k-th row's identifier, repeated identifiers
\* included; the k-th send_email call carries files[k] to the k-th address.
C9_FilesFollowContacts ==
    SplitReturned =>
        /\ Len(files) = Len(contacts.rows)
        /\ \A k \in 1..Len(files) :
               files[k] = get_save_path(
                   MerchantDfs(dfs, PyInt(Val(contacts, contacts.rows[k], COLUMN_ID))),
                   fs).path
        /\ \A k \in 1..Len(attempts) :
               /\ attempts[k].Attachment = Abspath(files[k])
               /\ attempts[k].To = Val(contacts, contacts.rows[k], COLUMN_EMAIL).s

C9_Witness ==
    /\ pc = "done"
    /\ Len(contacts.rows) = 2
    /\ merchant_list[1] = merchant_list[2]
    /\ Len(files) = 2
    /\ Len(attempts) = 2
    /\ attempts[2].To = Address(2)

====
